---------------------------- MODULE Spec2Model ----------------------------
(***************************************************************************)
(* Model of pickley's install lifecycle (src/src/pickley/package.py):      *)
(* VersionMeta, the delivery methods, Packager.install/internal_install    *)
(* and the pex and venv packagers, run by independent processes that       *)
(* share the per-package metadata folders and the bin folder.              *)
(***************************************************************************)
EXTENDS Integers, Sequences, FiniteSets, TLC

(***************************************************************************)
(* Bounds of the model                                                     *)
(***************************************************************************)
\* The clock runs from 1 to MaxTime
MaxTime == 2
\* Number of install invocations concurrent processes make in all
MaxRuns == 3
\* Number of install invocations a process makes one after the other
MaxSeqRuns == 2
\* SETTINGS.install_timeout, in clock ticks (configured, not set in package.py)
InstallTimeout == 1
\* SETTINGS.version_check_delay, in clock ticks (configured, not set in package.py)
VersionCheckDelay == 1

(***************************************************************************)
(* The universe: processes, packages, versions, entry points               *)
(***************************************************************************)
Procs == {"p1", "p2"}

\* system.PICKLEY, the tool's own package name
PICKLEY == "pickley"

\* system.DEFAULT_CHANNEL
DEFAULT_CHANNEL == "latest"

Packages == {"foo", PICKLEY, "six"}

Versions == {"1.0", "2.0"}

\* Channels a package may be configured with
Channels == {DEFAULT_CHANNEL, "stable"}

Packagers == {"pex", "venv"}

\* SETTINGS.index, the configured index url
INDEX == "index"

\* What read_entry_points() finds in the wheel built for a package version:
\* foo 1.0 exposes foo and bar, foo 2.0 drops bar, six is a library (no CLI)
WheelEntryPoints(name, version) ==
  IF name = "foo" THEN (IF version = "1.0" THEN <<"foo", "bar">> ELSE <<"foo">>)
  ELSE IF name = PICKLEY THEN <<PICKLEY>>
  ELSE <<>>

Range(s) == {s[i] : i \in 1..Len(s)}

\* Every entry-point name an invocation for a package can come across: those
\* of its wheels, and its own name (Packager.entry_points in dry-run mode)
EntryNames(name) == {name} \cup UNION {Range(WheelEntryPoints(name, v)) : v \in Versions}

AllEntryNames == UNION {EntryNames(n) : n \in Packages}

(***************************************************************************)
(* VersionMeta (lines 159-309)                                             *)
(***************************************************************************)
\* _problem = None
NoProblem == "None"

\* timestamp = None
NoTime == 0

\* Class-level defaults of a freshly constructed VersionMeta
NewMeta ==
  [problem |-> NoProblem, channel |-> "", packager |-> "", delivery |-> "",
   python |-> "", source |-> "", timestamp |-> NoTime, version |-> ""]

ValidIgnoresProblem(m) == m.version # ""

\* VersionMeta.valid
Valid(m) == m.version # "" /\ ~(m.problem # NoProblem /\ m.problem # "")

EquivalentAlsoDelivery(self, other) ==
  self.version = other.version /\ self.packager = other.packager
    /\ self.delivery = other.delivery

\* VersionMeta.equivalent (other is never None where the packager calls it)
Equivalent(self, other) ==
  IF self.version # other.version THEN FALSE
  ELSE IF self.packager # other.packager THEN FALSE
  ELSE TRUE

\* VersionMeta.set_version
SetVersion(m, version, source, channel, time) ==
  [m EXCEPT !.version = version, !.source = source, !.channel = channel,
            !.timestamp = time]

SetFromMetaMerging(m, other) ==
  [m EXCEPT !.problem = other.problem,
            !.channel = other.channel,
            !.packager = IF other.packager # "" THEN other.packager ELSE @,
            !.delivery = IF other.delivery # "" THEN other.delivery ELSE @,
            !.python = IF other.python # "" THEN other.python ELSE @,
            !.source = other.source,
            !.timestamp = other.timestamp,
            !.version = IF other.version # "" THEN other.version ELSE @]

\* VersionMeta.set, the branch taken for an argument that is a VersionMeta
SetFromMeta(m, other) ==
  [m EXCEPT !.problem = other.problem,
            !.channel = other.channel,
            !.packager = IF other.packager # "" THEN other.packager ELSE @,
            !.delivery = IF other.delivery # "" THEN other.delivery ELSE @,
            !.python = IF other.python # "" THEN other.python ELSE @,
            !.source = other.source,
            !.timestamp = other.timestamp,
            !.version = other.version]

\* VersionMeta.set, the branch taken for an argument that is a Packager:
\* implementation_name, the resolved delivery and the resolved python
SetFromPackager(m, packager, delivery, python) ==
  [m EXCEPT !.packager = packager, !.delivery = delivery, !.python = python]

\* VersionMeta.invalidate
Invalidate(m, problem) == [m EXCEPT !.problem = problem, !.version = ""]

\* VersionMeta.still_valid
StillValid(m, time) ==
  IF ~Valid(m) \/ m.timestamp = NoTime THEN Valid(m)
  ELSE (time - m.timestamp) < VersionCheckDelay

(***************************************************************************)
(* Files                                                                   *)
(***************************************************************************)
\* A json file holding a VersionMeta: absent, or present with its record
NoMetaFile == [exists |-> FALSE, meta |-> NewMeta]

MetaFile(m) == [exists |-> TRUE, meta |-> m]

\* JsonSerializable.load: fields come from the file; an absent file leaves
\* the object as it is
Load(m, file) == IF file.exists THEN file.meta ELSE m

\* The .entry-points.json file: absent, or present with its list
NoEpFile == [exists |-> FALSE, eps |-> <<>>]

EpFile(eps) == [exists |-> TRUE, eps |-> eps]

\* An entry of <meta>/<package> whose name does not start with a dot:
\* <name>-<version>, a pex file or a venv folder
Artifact(name, version, kind) == [name |-> name, version |-> version, kind |-> kind]

Artifacts ==
  [name : AllEntryNames, version : Versions, kind : Packagers]

\* Entries of a folder other than the one at the path of artifact a
OtherPaths(folder, a) ==
  {x \in folder : ~(x.name = a.name /\ x.version = a.version)}

\* What sits at <base>/<entry_point>: nothing, a foreign (unmanaged)
\* executable, or a delivered executable bound to an artifact of a package
NoArtifact == [name |-> "", version |-> "", kind |-> ""]

Absent == [kind |-> "none", pkg |-> "", src |-> NoArtifact]

Foreign == [kind |-> "foreign", pkg |-> "", src |-> NoArtifact]

Delivered(kind, pkg, src) == [kind |-> kind, pkg |-> pkg, src |-> src]


(***************************************************************************)
(* Configuration and index, read by an invocation when it resolves         *)
(***************************************************************************)
\* What SETTINGS resolves for a package: the packager, the delivery method
\* (DELIVERERS.resolved) and the python (resolved_value("python"))
Configs ==
  { [packager |-> "pex",  delivery |-> "symlink", python |-> "python3"],
    [packager |-> "pex",  delivery |-> "wrap",    python |-> "python2"],
    [packager |-> "venv", delivery |-> "copy",    python |-> "python3"],
    [packager |-> "venv", delivery |-> "symlink", python |-> "python2"] }

\* The channel resolved for the package, the version pinned for that channel
\* ("" when there is no pin), and what latest_pypi_version() would answer
\* ("" when the index has no answer)
AllResolutions ==
  [channel : Channels, pin : {""} \cup Versions, answer : {""} \cup Versions]

\* The resolutions the install runs draw from: pins on the stable channel, the
\* index on the latest channel
Resolutions ==
  {r \in AllResolutions :
     IF r.channel = DEFAULT_CHANNEL THEN r.pin = "" ELSE r.answer = ""}

\* What the concurrent processes draw from
FirstPackages == {"foo"}

OtherPackages == {"foo", PICKLEY}

PairPackages(p) == IF p = "p1" THEN FirstPackages ELSE OtherPackages

PairFlags == {FALSE}

PairConfigs ==
  { [packager |-> "pex",  delivery |-> "symlink", python |-> "python3"],
    [packager |-> "venv", delivery |-> "copy",    python |-> "python3"] }

PairResolutions ==
  {r \in Resolutions : r.channel = "stable" /\ r.pin # "2.0"}

\* str(v) of a pinned definition
PinSource == "pin"

(***************************************************************************)
(* State                                                                   *)
(***************************************************************************)
VARIABLES
  now,          \* time.time()
  lockFile,     \* lock path -> pid recorded in the lock file, "" when absent
  metaDir,      \* package -> the entries of <meta>/<package> (its files
                \* and work folder apart, which have variables of their own)
  workDir,      \* package -> the artifacts in dist_folder (<meta>/<package>/.work)
  currentFile,  \* package -> <meta>/<package>/.current.json
  latestFile,   \* package -> <meta>/<package>/.latest.json
  epFile,       \* package -> <meta>/<package>/.entry-points.json
  bin,          \* entry-point name -> what sits at <base>/<name>
  inv,          \* process -> its install invocation (a Packager and its position)
  vm,           \* a VersionMeta object and its json file, driven through its methods
  pingFile,     \* package -> time of <meta>/<package>/.ping, NoTime when absent
  sh            \* a shell at the bin folder: the delivery call and the commands run there

fsVars == <<metaDir, workDir, currentFile, latestFile, epFile, bin, pingFile>>

vars == <<now, lockFile, metaDir, workDir, currentFile, latestFile, epFile, bin, inv,
         vm, pingFile, sh>>

\* The part of the persisted state that belongs to a package
Persisted(name) ==
  [current |-> currentFile[name],
   eps     |-> epFile[name],
   meta    |-> metaDir[name],
   bin     |-> [e \in EntryNames(name) |-> bin[e]]]

\* Everything on disk that belongs to a package
OnDisk(name) ==
  [persisted |-> Persisted(name), latest |-> latestFile[name], work |-> workDir[name],
   ping |-> pingFile[name]]

\* Nothing on disk tells of an earlier install of the package
NoTrace(name) ==
  /\ ~currentFile[name].exists /\ ~latestFile[name].exists /\ ~epFile[name].exists
  /\ metaDir[name] = {} /\ workDir[name] = {} /\ pingFile[name] = NoTime
  /\ \A e \in AllEntryNames : bin[e].pkg # name

NoSnapshot ==
  [persisted |-> [current |-> NoMetaFile, eps |-> NoEpFile, meta |-> {},
                  bin |-> <<>>],
   latest |-> NoMetaFile, work |-> {}, ping |-> NoTime]

\* No configuration, no resolution: the inputs of a call that takes none
NoConfig == [packager |-> "", delivery |-> "", python |-> ""]

NoResolution == [channel |-> "", pin |-> "", answer |-> ""]

NoInputs ==
  [version |-> "", source |-> "", channel |-> "", problem |-> "",
   cfg |-> NoConfig, res |-> NoResolution, dry |-> FALSE]

\* A VersionMeta object driven through its methods: meta is the object, file
\* its json file, op the method called last, at the time of that call, pre
\* and prefile the object and the file before it, others the arguments of
\* set, inp the other inputs of the call, latest and queried what a
\* refresh_latest made of Packager.latest, ops the number of calls so far
NewVm(m, file) ==
  [meta |-> m, file |-> file, op |-> "", at |-> NoTime, pre |-> m,
   prefile |-> file, others |-> <<>>, inp |-> NoInputs, latest |-> NewMeta,
   queried |-> FALSE, ops |-> 0]

\* A command line: the program (a path of the bin folder, or a source path of
\* a package), its first argument, and the package named after it
BinPath(name) == [at |-> "bin", name |-> name, pkg |-> "", src |-> NoArtifact]

SourcePath(pkg, src) == [at |-> "source", name |-> "", pkg |-> pkg, src |-> src]

Cmd(prog, arg, about) == [prog |-> prog, arg |-> arg, about |-> about]

\* No call, no command
NoCall ==
  [method |-> "", pkg |-> "", target |-> "", src |-> NoArtifact, dry |-> FALSE,
   fault |-> "none", exists |-> FALSE, before |-> Absent, aborted |-> FALSE,
   touched |-> FALSE]

NoCmd == Cmd(BinPath(""), "", "")

NoRan == [spawn |-> <<>>, exec |-> <<>>, out |-> "", status |-> 0]

\* A shell in which nothing has been called or run yet
NewShell ==
  [ops |-> 0, op |-> "", call |-> NoCall, jobs |-> <<>>, spawns |-> 0,
   job |-> NoCmd, ran |-> NoRan]

\* A process that is not running an invocation; Packager.__init__ (lines 317-328)
\* gives every invocation fresh current/latest/desired metas and no entry points.
\* gaveUp (has the process met lock contention), fresh (did the invocation find
\* no trace of an earlier install) and snap (the package's files when the lock
\* was acquired) only record history, as do calls (the calls perform_delivery
\* has made so far, in order) and wheel (how pip wheel ended, "" when it was
\* not run).  direct says package() was called by itself, not by
\* effective_install
NewInvocation(runs) ==
  [pc |-> "idle", pkg |-> "", force |-> FALSE, dryrun |-> FALSE, runs |-> runs,
   waitStart |-> NoTime,
   packager |-> "", delivery |-> "", python |-> "",
   desired |-> NewMeta, current |-> NewMeta, latest |-> NewMeta,
   eps |-> <<>>, prev |-> <<>>, packaged |-> <<>>, installed |-> {}, idx |-> 1,
   calls |-> <<>>, direct |-> FALSE, wheel |-> "",
   outcome |-> "", msg |-> "", pingPath |-> [pkg |-> "", sub |-> "", file |-> ""],
   gaveUp |-> FALSE, fresh |-> FALSE, snap |-> NoSnapshot]

(***************************************************************************)
(* The install lock, PingLock                                              *)
(***************************************************************************)
\* Pid found in a lock file left behind by a process that no longer runs
DeadPid == "0"

NoPid == ""

LockSubs == {".work"} \cup Procs

LockPaths == [pkg : Packages, sub : LockSubs]

DistFolderPerProcess(p) == [pkg |-> inv[p].pkg, sub |-> p]

\* Packager.dist_folder = SETTINGS.meta.full_path(self.name, ".work")
DistFolder(p) == [pkg |-> inv[p].pkg, sub |-> ".work"]

\* Is the process recorded in a lock file still running?
Alive(pid) == pid \in Procs

\* A lock that blocks whenever the lock file exists, whoever it names
BlockedByAnyPid(path) == lockFile[path] # NoPid

\* The lock at path blocks an acquirer
Blocked(path) == lockFile[path] # NoPid /\ Alive(lockFile[path])

\* The lock file once pid has acquired it
LockEnter(path, pid) == [lockFile EXCEPT ![path] = pid]

\* The lock file once it is released
LockExit(path) == [lockFile EXCEPT ![path] = NoPid]

\* No path
NoPath == [pkg |-> "", sub |-> "", file |-> ""]

\* e.ping_path of the PingLockException raised for the lock of a folder: the
\* lock file inside it
PingPath(path) == [pkg |-> path.pkg, sub |-> path.sub, file |-> ".ping"]

(***************************************************************************)
(* Init                                                                    *)
(***************************************************************************)
Init ==
  /\ now = 1
  /\ lockFile = [l \in LockPaths |->
                   IF l = [pkg |-> "foo", sub |-> ".work"] THEN DeadPid ELSE NoPid]
  /\ metaDir = [n \in Packages |-> {}]
  /\ workDir = [n \in Packages |-> {}]
  /\ currentFile = [n \in Packages |-> NoMetaFile]
  /\ latestFile = [n \in Packages |-> NoMetaFile]
  /\ epFile = [n \in Packages |-> NoEpFile]
  /\ bin = [e \in AllEntryNames |-> IF e = "bar" THEN Foreign ELSE Absent]
  /\ inv = [p \in Procs |-> NewInvocation(0)]
  /\ vm = NewVm(NewMeta, NoMetaFile)
  /\ pingFile = [n \in Packages |-> NoTime]
  /\ sh = NewShell

(***************************************************************************)
(* Helpers of pickley.system: each does nothing but log in dry-run mode    *)
(***************************************************************************)
\* system.delete_file on one entry of the bin folder
DeleteTarget(dry, entry) == IF dry THEN entry ELSE Absent

\* system.move_file / system.move_venv of a from dist_folder to <meta>/<package>:
\* whatever was at the destination path is replaced
MovedInto(dry, folder, a) == IF dry THEN folder ELSE OtherPaths(folder, a) \cup {a}

MovedOutOf(dry, folder, a) == IF dry THEN folder ELSE folder \ {a}

\* JsonSerializable.save / save_json
Saved(dry, old, new) == IF dry THEN old ELSE new

\* uninstall_existing(target): removes or relocates whatever occupies target
UninstallExisting(dry, entry) == IF dry THEN entry ELSE Absent

(***************************************************************************)
(* Delivery (lines 59-156)                                                 *)
(***************************************************************************)
\* Does the path that perform_delivery formats from the packager's template
\* exist: {meta}/{name}-{version} for pex, <venv>/bin/{name} for venv
SourceExists(folder, packager, pkg, name, version) ==
  IF packager = "pex"
  THEN \E x \in folder : x.name = name /\ x.version = version
  ELSE /\ Artifact(pkg, version, "venv") \in folder
       /\ name \in Range(WheelEntryPoints(pkg, version))

\* The artifact a delivered executable of entry point name is bound to
SourceArtifact(packager, pkg, name, version) ==
  IF packager = "pex" THEN Artifact(name, version, "pex")
  ELSE Artifact(pkg, version, "venv")

DeliveryInstallNoDryrun(entry, dry, exists, fault, new) ==
  IF ~exists \/ fault # "none"
  THEN [entry |-> Absent, aborted |-> TRUE,
        touched |-> exists /\ new.kind = "wrap" /\ fault # "touch"]
  ELSE [entry |-> new, aborted |-> FALSE, touched |-> new.kind = "wrap"]

DeliveryInstallNoSourceCheck(entry, dry, exists, fault, new) ==
  LET deleted == DeleteTarget(dry, entry)
  IN IF dry THEN [entry |-> deleted, aborted |-> FALSE, touched |-> FALSE]
     ELSE IF fault # "none"
     THEN [entry |-> deleted, aborted |-> TRUE,
           touched |-> new.kind = "wrap" /\ fault # "touch"]
     ELSE [entry |-> new, aborted |-> FALSE, touched |-> new.kind = "wrap"]

DeliveryInstallNoTouch(entry, dry, exists, fault, new) ==
  LET deleted == DeleteTarget(dry, entry)
  IN IF dry THEN [entry |-> deleted, aborted |-> FALSE, touched |-> FALSE]
     ELSE IF ~exists \/ fault # "none"
     THEN [entry |-> deleted, aborted |-> TRUE, touched |-> FALSE]
     ELSE [entry |-> new, aborted |-> FALSE, touched |-> FALSE]

\* What can go wrong in a delivery method's _install: nothing, the touch of
\* the ping file (DeliveryWrap only, line 132) or the placement at the target
Faults == {"none", "touch", "place"}

\* Could _install of the method fail that way
CanFail(method, fault) == fault = "touch" => method = "wrap"

\* DeliveryMethod.install(target, source): entry is what sits at target, new
\* is what the method's _install would place there, fault says where _install
\* raises.  touched says DeliveryWrap._install touched the package's ping file
\* (lines 131-132), which it does before it writes the wrapper
DeliveryInstall(entry, dry, exists, fault, new) ==
  LET deleted == DeleteTarget(dry, entry)
  IN IF dry THEN [entry |-> deleted, aborted |-> FALSE, touched |-> FALSE]
     ELSE IF ~exists THEN [entry |-> deleted, aborted |-> TRUE, touched |-> FALSE]
     ELSE IF fault # "none"
     THEN [entry |-> deleted, aborted |-> TRUE,
           touched |-> new.kind = "wrap" /\ fault # "touch"]
     ELSE [entry |-> new, aborted |-> FALSE, touched |-> new.kind = "wrap"]

(***************************************************************************)
(* Packager.install / internal_install (lines 477-529)                     *)
(***************************************************************************)
\* Leaving the invocation: only what later runs need is kept
Ended(r, outcome, msg) ==
  [NewInvocation(r.runs) EXCEPT
     !.pc = "done", !.pkg = r.pkg, !.force = r.force, !.dryrun = r.dryrun,
     !.outcome = outcome, !.msg = msg, !.desired = r.desired,
     !.gaveUp = r.gaveUp, !.fresh = r.fresh, !.direct = r.direct,
     !.wheel = r.wheel]

ExitKeepsLock(p) == lockFile

\* Leaving the 'with PingLock(...)' block of internal_install, on return or
\* on an exception
ExitWith(p) == LockExit(DistFolder(p))

\* system.abort: the invocation ends; inside the with block of
\* internal_install the lock goes
Abort(p, r, msg) ==
  /\ inv' = [inv EXCEPT ![p] = Ended(r, "FAILED", msg)]
  /\ lockFile' = IF r.direct THEN lockFile ELSE ExitWith(p)

\* Invocations started so far
RECURSIVE Sum(_, _)
Sum(f, S) == IF S = {} THEN 0 ELSE LET x == CHOOSE x \in S : TRUE
                                   IN f[x] + Sum(f, S \ {x})

Runs == Sum([p \in Procs |-> inv[p].runs], Procs)

\* A process runs 'pickley install <name>' (force: -f, dryrun: -n)
Start(p, names, flags, maxRuns) ==
  /\ inv[p].pc \in {"idle", "done"}
  /\ Runs < maxRuns
  /\ \E name \in names, force \in flags, dry \in flags :
       inv' = [inv EXCEPT ![p] =
                 [NewInvocation(inv[p].runs + 1) EXCEPT
                    !.pc = "acquire", !.pkg = name, !.force = force,
                    !.dryrun = dry, !.waitStart = now, !.gaveUp = inv[p].gaveUp]]
  /\ UNCHANGED <<vm, sh, now, lockFile, fsVars>>

\* PingLock.__enter__ succeeds: line 493
Acquire(p) ==
  /\ inv[p].pc = "acquire"
  /\ ~Blocked(DistFolder(p))
  /\ lockFile' = LockEnter(DistFolder(p), p)
  /\ inv' = [inv EXCEPT ![p].pc = "resolve",
                        ![p].snap = OnDisk(inv[p].pkg),
                        ![p].fresh = NoTrace(inv[p].pkg)]
  /\ UNCHANGED <<vm, sh, now, fsVars>>

InstallCatchNamesFolder(p) == [pkg |-> inv[p].pkg, sub |-> "", file |-> ""]

\* Packager.install's except clause (lines 484-486): the path it tells the
\* user to delete
InstallCatch(p) == PingPath(DistFolder(p))

\* PingLock.__enter__ gives up after the install timeout: PingLockException,
\* caught by Packager.install
GiveUp(p) ==
  /\ inv[p].pc = "acquire"
  /\ Blocked(DistFolder(p))
  /\ now - inv[p].waitStart >= InstallTimeout
  /\ inv' = [inv EXCEPT ![p] =
               [Ended(inv[p], "FAILED", "is currently being installed by another process")
                  EXCEPT !.pingPath = InstallCatch(p), !.gaveUp = TRUE]]
  /\ UNCHANGED <<vm, sh, now, lockFile, fsVars>>

(***************************************************************************)
(* Version resolution (lines 399-433)                                      *)
(***************************************************************************)
RefreshLatestAlwaysSaves(file, answer, time, dry) ==
  LET loaded == Load(NewMeta, file)
      set    == SetVersion(loaded, answer, INDEX, DEFAULT_CHANNEL, time)
  IN IF StillValid(loaded, time)
     THEN [meta |-> loaded, file |-> file, queried |-> FALSE]
     ELSE [meta |-> IF answer # "" THEN set
                    ELSE Invalidate(set, "can't determine latest version"),
           file |-> Saved(dry, file, MetaFile(set)), queried |-> TRUE]

RefreshLatestNoCache(file, answer, time, dry) ==
  LET loaded == Load(NewMeta, file)
      set    == SetVersion(loaded, answer, INDEX, DEFAULT_CHANNEL, time)
  IN IF answer # ""
     THEN [meta |-> set, file |-> Saved(dry, file, MetaFile(set)), queried |-> TRUE]
     ELSE [meta |-> Invalidate(set, "can't determine latest version"),
           file |-> file, queried |-> TRUE]

\* Packager.refresh_latest: [meta, file, queried] from the persisted latest
\* file, the index's answer and the time
RefreshLatest(file, answer, time, dry) ==
  LET loaded == Load(NewMeta, file)
      set    == SetVersion(loaded, answer, INDEX, DEFAULT_CHANNEL, time)
  IN IF StillValid(loaded, time)
     THEN [meta |-> loaded, file |-> file, queried |-> FALSE]
     ELSE IF answer # ""
     THEN [meta |-> set, file |-> Saved(dry, file, MetaFile(set)), queried |-> TRUE]
     ELSE [meta |-> Invalidate(set, "can't determine latest version"),
           file |-> file, queried |-> TRUE]

\* "can't determine %s version" % channel.value
CantDetermine(channel) ==
  IF channel = "stable" THEN "can't determine stable version"
  ELSE "can't determine latest version"

\* Packager.refresh_desired: [desired, latest, file, queried]
RefreshDesired(cfg, res, file, time, dry) ==
  IF res.pin # ""
  THEN [desired |-> SetFromPackager(
                      SetVersion(NewMeta, res.pin, PinSource, res.channel, time),
                      cfg.packager, cfg.delivery, cfg.python),
        latest |-> NewMeta, file |-> file, queried |-> FALSE]
  ELSE IF res.channel = DEFAULT_CHANNEL
  THEN LET l == RefreshLatest(file, res.answer, time, dry)
       IN [desired |-> SetFromMeta(
                         SetFromPackager(NewMeta, cfg.packager, cfg.delivery, cfg.python),
                         l.meta),
           latest |-> l.meta, file |-> l.file, queried |-> l.queried]
  ELSE [desired |-> Invalidate(NewMeta, CantDetermine(res.channel)),
        latest |-> NewMeta, file |-> file, queried |-> FALSE]

RefreshCurrentNoLoad(file) == Invalidate(NewMeta, "is not installed")

\* Packager.refresh_current
RefreshCurrent(file) ==
  LET loaded == Load(NewMeta, file)
  IN IF Valid(loaded) THEN loaded ELSE Invalidate(loaded, "is not installed")

\* Packager.entry_points, read for the first time in an invocation
EntryPoints(file, name, dry) ==
  IF file.exists THEN file.eps ELSE IF dry THEN <<name>> ELSE <<>>

UnresolvedNever(desired) == FALSE

\* internal_install, line 496: the test that makes it abort
Unresolved(desired) == ~Valid(desired)

\* internal_install, lines 494-497: refresh_desired, abort when unresolved
Resolve(p, cfgs, ress) ==
  /\ inv[p].pc = "resolve"
  /\ \E cfg \in cfgs, res \in ress :
       LET r == inv[p]
           d == RefreshDesired(cfg, res, latestFile[r.pkg], now, r.dryrun)
           r2 == [r EXCEPT !.packager = cfg.packager, !.delivery = cfg.delivery,
                           !.python = cfg.python, !.desired = d.desired,
                           !.latest = d.latest]
       IN /\ latestFile' = [latestFile EXCEPT ![r.pkg] = d.file]
          /\ IF Unresolved(d.desired)
             THEN Abort(p, r2, d.desired.problem)
             ELSE /\ inv' = [inv EXCEPT ![p] = [r2 EXCEPT !.pc = "check"]]
                  /\ UNCHANGED lockFile
  /\ UNCHANGED <<vm, sh, pingFile, now, metaDir, workDir, currentFile, epFile, bin>>

\* lines 499-503 without the test of force
CheckCurrentIgnoresForce(p) ==
  /\ inv[p].pc = "check"
  /\ LET r == inv[p]
         cur == RefreshCurrent(currentFile[r.pkg])
         eps == EntryPoints(epFile[r.pkg], r.pkg, r.dryrun)
     IN IF Equivalent(cur, r.desired)
        THEN /\ inv' = [inv EXCEPT ![p] = Ended(r, "UP_TO_DATE", "is already installed")]
             /\ lockFile' = ExitWith(p)
        ELSE /\ inv' = [inv EXCEPT ![p] = [r EXCEPT !.pc = "package", !.current = cur,
                                                    !.eps = eps, !.prev = eps]]
             /\ UNCHANGED lockFile
  /\ UNCHANGED <<vm, sh, now, fsVars>>

\* internal_install, lines 499-508: refresh_current, the 'already installed'
\* return, and the entry points recorded before the install
CheckCurrent(p) ==
  /\ inv[p].pc = "check"
  /\ LET r == inv[p]
         cur == RefreshCurrent(currentFile[r.pkg])
         eps == EntryPoints(epFile[r.pkg], r.pkg, r.dryrun)
     IN IF ~r.force /\ Equivalent(cur, r.desired)
        THEN /\ inv' = [inv EXCEPT ![p] = Ended(r, "UP_TO_DATE", "is already installed")]
             /\ lockFile' = ExitWith(p)
        ELSE /\ inv' = [inv EXCEPT ![p] = [r EXCEPT !.pc = "package", !.current = cur,
                                                    !.eps = eps, !.prev = eps]]
             /\ UNCHANGED lockFile
  /\ UNCHANGED <<vm, sh, now, fsVars>>

(***************************************************************************)
(* Packaging (lines 362-397, 435-468, 557-647)                             *)
(***************************************************************************)
\* Packager.get_entry_points: what the wheel in build_folder declares, None
\* (here the empty list) when there is no wheel for the version
GetEntryPoints(built, name, version) ==
  IF ~built THEN <<>> ELSE WheelEntryPoints(name, version)

PackageIgnoresWheelError(p) ==
  /\ inv[p].pc = "package"
  /\ \E error \in BOOLEAN :
       LET r == [inv[p] EXCEPT !.wheel = IF error THEN "error" ELSE "ok"]
           found == GetEntryPoints(TRUE, r.pkg, r.desired.version)
       IN IF r.desired.version = ""
          THEN /\ ~error
               /\ Abort(p, inv[p], "Need either source_folder or version in order to package")
               /\ UNCHANGED epFile
          ELSE IF r.dryrun
          THEN /\ ~error
               /\ inv' = [inv EXCEPT ![p] =
                            [r EXCEPT !.pc = "build", !.idx = 1,
                                      !.eps = IF r.direct
                                              THEN EntryPoints(epFile[r.pkg], r.pkg, TRUE)
                                              ELSE @]]
               /\ UNCHANGED <<lockFile, epFile>>
          ELSE IF found = <<>>
          THEN /\ Abort(p, r, "is not a CLI, it has no console_scripts entry points")
               /\ UNCHANGED epFile
          ELSE /\ inv' = [inv EXCEPT ![p] = [r EXCEPT !.pc = "build", !.idx = 1,
                                                      !.eps = found]]
               /\ epFile' = [epFile EXCEPT ![r.pkg] = EpFile(found)]
               /\ UNCHANGED lockFile
  /\ UNCHANGED <<vm, sh, pingFile, now, metaDir, workDir, currentFile, latestFile, bin>>

\* Packager.package up to the call of effective_package: the test of its
\* arguments (source_folder is None in every call made here), pip wheel,
\* then refresh_entry_points, then ensure_folder.  error says pip wheel
\* failed
Package(p) ==
  /\ inv[p].pc = "package"
  /\ \E error \in BOOLEAN :
       LET r == [inv[p] EXCEPT !.wheel = IF error THEN "error" ELSE "ok"]
           found == GetEntryPoints(TRUE, r.pkg, r.desired.version)
       IN IF r.desired.version = ""
          THEN /\ ~error
               /\ Abort(p, inv[p], "Need either source_folder or version in order to package")
               /\ UNCHANGED epFile
          ELSE IF r.dryrun
          THEN /\ ~error
               /\ inv' = [inv EXCEPT ![p] =
                            [r EXCEPT !.pc = "build", !.idx = 1,
                                      !.eps = IF r.direct
                                              THEN EntryPoints(epFile[r.pkg], r.pkg, TRUE)
                                              ELSE @]]
               /\ UNCHANGED <<lockFile, epFile>>
          ELSE IF error
          THEN /\ Abort(p, r, "pip wheel failed")
               /\ UNCHANGED epFile
          ELSE IF found = <<>>
          THEN /\ Abort(p, r, "is not a CLI, it has no console_scripts entry points")
               /\ UNCHANGED epFile
          ELSE /\ inv' = [inv EXCEPT ![p] = [r EXCEPT !.pc = "build", !.idx = 1,
                                                      !.eps = found]]
               /\ epFile' = [epFile EXCEPT ![r.pkg] = EpFile(found)]
               /\ UNCHANGED lockFile
  /\ UNCHANGED <<vm, sh, pingFile, now, metaDir, workDir, currentFile, latestFile, bin>>

\* package() returns the list effective_package made: to effective_install,
\* which moves it, or to the caller of a direct call
Packaged(r) ==
  IF r.direct THEN Ended(r, "PACKAGED", "") ELSE [r EXCEPT !.pc = "move", !.idx = 1]

\* PexPackager.effective_package: one pass of its loop, a pex built in
\* dist_folder for the next entry point.  error says the pex command failed
BuildPex(p) ==
  /\ inv[p].pc = "build"
  /\ inv[p].packager = "pex"
  /\ inv[p].idx <= Len(inv[p].eps)
  /\ \E error \in BOOLEAN :
       LET r == inv[p]
           dest == Artifact(r.eps[r.idx], r.desired.version, "pex")
           r2 == [r EXCEPT !.packaged = Append(@, dest), !.idx = @ + 1]
       IN IF error /\ ~r.dryrun
          THEN /\ Abort(p, r, "pex command failed")
               /\ UNCHANGED workDir
          ELSE /\ ~error
               /\ workDir' = [workDir EXCEPT ![r.pkg] = MovedInto(r.dryrun, @, dest)]
               /\ inv' = [inv EXCEPT ![p] =
                            IF r2.idx > Len(r.eps) THEN Packaged(r2) ELSE r2]
               /\ UNCHANGED lockFile
  /\ UNCHANGED <<vm, sh, pingFile, now, metaDir, currentFile, latestFile, epFile, bin>>

\* VenvPackager.effective_package: the venv created in dist_folder and the
\* package pip-installed into it.  error says one of the two programs failed
BuildVenv(p) ==
  /\ inv[p].pc = "build"
  /\ inv[p].packager = "venv"
  /\ \E error \in BOOLEAN :
       LET r == inv[p]
           folder == Artifact(r.pkg, r.desired.version, "venv")
       IN IF error /\ ~r.dryrun
          THEN /\ Abort(p, r, "venv or pip install failed")
               /\ UNCHANGED workDir
          ELSE /\ ~error
               /\ workDir' = [workDir EXCEPT ![r.pkg] = MovedInto(r.dryrun, @, folder)]
               /\ inv' = [inv EXCEPT ![p] = Packaged([r EXCEPT !.packaged = <<folder>>])]
               /\ UNCHANGED lockFile
  /\ UNCHANGED <<vm, sh, pingFile, now, metaDir, currentFile, latestFile, epFile, bin>>

\* effective_install of either packager: one pass of the loop that moves a
\* packaged artifact from dist_folder into <meta>/<package>
Move(p) ==
  /\ inv[p].pc = "move"
  /\ LET r == inv[p]
         a == r.packaged[r.idx]
         r2 == [r EXCEPT !.installed = @ \cup {a}, !.idx = @ + 1]
     IN /\ workDir' = [workDir EXCEPT ![r.pkg] = MovedOutOf(r.dryrun, @, a)]
        /\ metaDir' = [metaDir EXCEPT ![r.pkg] = MovedInto(r.dryrun, @, a)]
        /\ inv' = [inv EXCEPT ![p] =
                     IF r2.idx > Len(r.packaged)
                     THEN [r2 EXCEPT !.pc = "deliver", !.idx = 1] ELSE r2]
  /\ UNCHANGED <<vm, sh, pingFile, now, lockFile, currentFile, latestFile, epFile, bin>>

(***************************************************************************)
(* Delivery and cleanup (lines 511-529, 537-548)                           *)
(***************************************************************************)
UninstallsFirstAlsoPickley(pkg, currentExists) == ~currentExists

\* perform_delivery, line 545: is whatever occupies the target uninstalled
\* before the delivery
UninstallsFirst(pkg, currentExists) == pkg # PICKLEY /\ ~currentExists

\* A call that perform_delivery makes for a target
Call(op, target) == [op |-> op, target |-> target]

\* The auto-upgrade check of a package at a time: it is skipped ('checked
\* recently') while the package's ping file is younger than the
\* version-check delay
AutoUpgradeSkips(ping, time) == ping # NoTime /\ time - ping < VersionCheckDelay

\* PingLock.touch: the ping file takes the current time
Touched(ping, touched, time) == IF touched THEN time ELSE ping

\* Packager.perform_delivery: one pass of its loop over the entry points.
\* fault says where the delivery method's _install raises
Deliver(p) ==
  /\ inv[p].pc = "deliver"
  /\ inv[p].idx <= Len(inv[p].eps)
  /\ \E fault \in Faults :
       LET r == inv[p]
           name == r.eps[r.idx]
           first == UninstallsFirst(r.pkg, currentFile[r.pkg].exists)
           occupant == IF first THEN UninstallExisting(r.dryrun, bin[name])
                       ELSE bin[name]
           exists == SourceExists(metaDir[r.pkg], r.packager, r.pkg, name,
                                  r.desired.version)
           new == Delivered(r.delivery, r.pkg,
                            SourceArtifact(r.packager, r.pkg, name, r.desired.version))
           d == DeliveryInstall(occupant, r.dryrun, exists, fault, new)
           r2 == [r EXCEPT !.idx = @ + 1,
                           !.calls = @ \o (IF first
                                           THEN <<Call("uninstall_existing", name)>>
                                           ELSE <<>>)
                                     \o <<Call("install", name)>>]
       IN /\ fault # "none" => ~r.dryrun /\ exists /\ CanFail(r.delivery, fault)
          /\ bin' = [bin EXCEPT ![name] = d.entry]
          /\ pingFile' = [pingFile EXCEPT ![r.pkg] = Touched(@, d.touched, now)]
          /\ IF d.aborted
             THEN Abort(p, r, IF exists THEN "Failed delivery"
                                        ELSE "Can't deliver, source does not exist")
             ELSE /\ inv' = [inv EXCEPT ![p] =
                               IF r2.idx > Len(r.eps)
                               THEN [r2 EXCEPT !.pc = "cleanup", !.idx = 1] ELSE r2]
                  /\ UNCHANGED lockFile
  /\ UNCHANGED <<vm, sh, now, metaDir, workDir, currentFile, latestFile, epFile>>

KeptEntriesNone(folder, installed) == {}

\* Entries of <meta>/<package> that are no artifact of pickley: a file named
\* .foo and a file named foo-foo (version "" says the entry's name is name,
\* with no -<version> after it)
ForeignEntries == {Artifact(".foo", "", "file"), Artifact("foo-foo", "", "file")}

\* name.startswith("."), over the names that entries have here
StartsWithDot(name) == name \in {".foo"}

KeptEntriesInstalledOnly(folder, installed) ==
  {x \in folder : \E a \in installed : a.name = x.name /\ a.version = x.version}

\* The entries of <meta>/<package> that lines 511-517 keep: those whose name
\* starts with a dot and those whose path is one of the installed paths
KeptEntries(folder, installed) ==
  {x \in folder : \/ StartsWithDot(x.name)
                  \/ \E a \in installed : a.name = x.name /\ a.version = x.version}

\* internal_install, lines 511-517: every non-dot entry of <meta>/<package>
\* that was not just installed is deleted.  fault says a delete failed
Cleanup(p) ==
  /\ inv[p].pc = "cleanup"
  /\ \E fault \in BOOLEAN :
       LET r == inv[p]
           kept == KeptEntries(metaDir[r.pkg], r.installed)
       IN IF fault
          THEN /\ ~r.dryrun
               /\ kept # metaDir[r.pkg]
               /\ Abort(p, r, "Can't delete")
               /\ UNCHANGED metaDir
          ELSE /\ metaDir' = [metaDir EXCEPT ![r.pkg] = IF r.dryrun THEN @ ELSE kept]
               /\ inv' = [inv EXCEPT ![p].pc = "removed"]
               /\ UNCHANGED lockFile
  /\ UNCHANGED <<vm, sh, pingFile, now, workDir, currentFile, latestFile, epFile, bin>>

\* lines 519-523 without the deletion: the executables of removed entry points
\* are left in the bin directory
RemoveOldKeepsExecutables(p) ==
  /\ inv[p].pc = "removed"
  /\ inv' = [inv EXCEPT ![p].pc = "save"]
  /\ UNCHANGED <<vm, sh, now, lockFile, fsVars>>

\* lines 519-523 deleting every executable of the bin directory that is not an
\* entry point of the new artifact, instead of the previous entry points only
RemoveOldDeletesOthers(p) ==
  /\ inv[p].pc = "removed"
  /\ bin' = [e \in AllEntryNames |->
               IF e \notin Range(inv[p].eps)
               THEN DeleteTarget(inv[p].dryrun, bin[e]) ELSE bin[e]]
  /\ inv' = [inv EXCEPT ![p].pc = "save"]
  /\ UNCHANGED <<vm, sh, pingFile, now, lockFile, metaDir, workDir, currentFile, latestFile, epFile>>

\* internal_install, lines 519-523: the delivered executable of every entry
\* point that the new artifact no longer has is deleted
RemoveOld(p) ==
  /\ inv[p].pc = "removed"
  /\ LET r == inv[p]
         gone == Range(r.prev) \ Range(r.eps)
     IN bin' = [e \in AllEntryNames |->
                  IF e \in gone THEN DeleteTarget(r.dryrun, bin[e]) ELSE bin[e]]
  /\ inv' = [inv EXCEPT ![p].pc = "save"]
  /\ UNCHANGED <<vm, sh, pingFile, now, lockFile, metaDir, workDir, currentFile, latestFile, epFile>>

\* The message internal_install ends with (lines 528-529)
InstalledMessage(dry) == IF dry THEN "Would install" ELSE "Installed"

\* internal_install, lines 525-529: current takes the packager's and the
\* desired meta's fields and is saved; the with block is left
Save(p) ==
  /\ inv[p].pc = "save"
  /\ LET r == inv[p]
         cur == SetFromMeta(SetFromPackager(r.current, r.packager, r.delivery, r.python),
                            r.desired)
     IN /\ currentFile' = [currentFile EXCEPT ![r.pkg] = Saved(r.dryrun, @, MetaFile(cur))]
        /\ inv' = [inv EXCEPT ![p] = Ended(r, "INSTALLED", InstalledMessage(r.dryrun))]
        /\ lockFile' = ExitWith(p)
  /\ UNCHANGED <<vm, sh, pingFile, now, metaDir, workDir, latestFile, epFile, bin>>

\* Time passes
Tick ==
  /\ now < MaxTime
  /\ now' = now + 1
  /\ UNCHANGED <<vm, sh, lockFile, fsVars, inv>>

\* The steps of an invocation once it holds the lock and has resolved
InstallSteps(p) ==
  \/ CheckCurrent(p)
  \/ Package(p)
  \/ BuildPex(p)
  \/ BuildVenv(p)
  \/ Move(p)
  \/ Deliver(p)
  \/ Cleanup(p)
  \/ RemoveOld(p)
  \/ Save(p)

\* Concurrent processes: p1 installs foo while p2 installs foo or pickley
Next ==
  \/ Tick
  \/ \E p \in Procs :
       \/ Start(p, PairPackages(p), PairFlags, MaxRuns)
       \/ Acquire(p)
       \/ GiveUp(p)
       \/ Resolve(p, PairConfigs, PairResolutions)
       \/ InstallSteps(p)

Spec == Init /\ [][Next]_vars

\* One process installing packages one after the other, in every
\* configuration
NextInstall ==
  \/ Tick
  \/ Start("p1", Packages, BOOLEAN, MaxSeqRuns)
  \/ Acquire("p1")
  \/ Resolve("p1", Configs, Resolutions)
  \/ InstallSteps("p1")

SpecInstall == Init /\ [][NextInstall]_vars

\* The versions package() is called with: "" is version=None
PackageVersions == {""} \cup Versions

\* A caller (the package command, a test) calls Packager.package(version)
\* by itself: no lock is taken, nothing was resolved, source_folder is None
CallPackage(p, names, versions, cfgs, maxRuns) ==
  /\ inv[p].pc \in {"idle", "done"}
  /\ Runs < maxRuns
  /\ \E name \in names, version \in versions, cfg \in cfgs, dry \in BOOLEAN :
       inv' = [inv EXCEPT ![p] =
                 [NewInvocation(inv[p].runs + 1) EXCEPT
                    !.pc = "package", !.pkg = name, !.dryrun = dry,
                    !.direct = TRUE, !.packager = cfg.packager,
                    !.delivery = cfg.delivery, !.python = cfg.python,
                    !.desired = [NewMeta EXCEPT !.version = version],
                    !.gaveUp = inv[p].gaveUp]]
  /\ UNCHANGED <<vm, sh, now, lockFile, fsVars>>

\* Somebody creates a file in <meta>/<package> (test_ops.py, lines 305-306)
TouchEntry(names, entries) ==
  /\ \E name \in names, x \in entries :
       /\ x \notin metaDir[name]
       /\ metaDir' = [metaDir EXCEPT ![name] = @ \cup {x}]
  /\ UNCHANGED <<vm, sh, pingFile, now, lockFile, workDir, currentFile, latestFile,
                 epFile, bin, inv>>

\* One process, whose Packager is used for installs and for direct calls of
\* package(), and foreign files in the metadata folder of its package
NextPackager ==
  \/ TouchEntry(FirstPackages, ForeignEntries)
  \/ CallPackage("p1", FirstPackages, PackageVersions, Configs, MaxSeqRuns)
  \/ Start("p1", FirstPackages, BOOLEAN, MaxSeqRuns)
  \/ Acquire("p1")
  \/ Resolve("p1", Configs, PairResolutions)
  \/ InstallSteps("p1")

SpecPackager == Init /\ [][NextPackager]_vars

\* Concurrent processes that are scheduled fairly: a process that can take a
\* step of its invocation eventually takes one (every external program returns)
ProcStep(p) ==
  Acquire(p) \/ GiveUp(p) \/ Resolve(p, PairConfigs, PairResolutions) \/ InstallSteps(p)

FairSpec == Spec /\ \A p \in Procs : WF_vars(ProcStep(p))

(***************************************************************************)
(* VersionMeta and the refresh methods, called in any order (lines 159-309, *)
(* 399-433)                                                                *)
(***************************************************************************)
\* Number of method calls made on the VersionMeta object
MaxMetaOps == 3

\* The problems the program records with invalidate (lines 403, 417, 433)
Problems ==
  {"is not installed", "can't determine latest version",
   "can't determine stable version"}

\* The sources set_version is given: SETTINGS.index (line 412), str(v) (line 424)
MetaSources == {INDEX, PinSource}

\* VersionMeta objects passed to set
ArgMetas ==
  { NewMeta,
    SetVersion(NewMeta, "1.0", INDEX, DEFAULT_CHANNEL, 1),
    Invalidate(NewMeta, "can't determine latest version"),
    SetFromPackager(SetVersion(NewMeta, "2.0", PinSource, "stable", 1),
                    "venv", "wrap", "python2") }

\* The arguments of set: a VersionMeta or a Packager (with what SETTINGS
\* resolves for it)
SetArgs ==
  {[kind |-> "meta", meta |-> m, cfg |-> NoConfig] : m \in ArgMetas}
    \cup {[kind |-> "packager", meta |-> NewMeta, cfg |-> c] : c \in PairConfigs}

\* Argument lists of set: none, one or two arguments
SetArgLists ==
  {<<>>} \cup {<<a>> : a \in SetArgs} \cup {<<a, b>> : a \in SetArgs, b \in SetArgs}

\* VersionMeta.set(*others)
RECURSIVE Set(_, _)
Set(m, others) ==
  IF others = <<>> THEN m
  ELSE LET other == Head(others)
       IN Set(IF other.kind = "meta" THEN SetFromMeta(m, other.meta)
              ELSE SetFromPackager(m, other.cfg.packager, other.cfg.delivery,
                                   other.cfg.python),
              Tail(others))

\* The object after a call: what the call leaves, and what it was given
Called(op, m, file, others, inp, latest, queried) ==
  [meta |-> m, file |-> file, op |-> op, at |-> now, pre |-> vm.meta,
   prefile |-> vm.file, others |-> others, inp |-> inp,
   latest |-> latest, queried |-> queried, ops |-> vm.ops + 1]

CallSetVersion ==
  /\ vm.ops < MaxMetaOps
  /\ \E version \in {""} \cup Versions, source \in MetaSources, channel \in Channels :
       vm' = Called("set_version",
                    SetVersion(vm.meta, version, source, channel, now),
                    vm.file, <<>>,
                    [NoInputs EXCEPT !.version = version, !.source = source,
                                     !.channel = channel],
                    NewMeta, FALSE)
  /\ UNCHANGED <<sh, now, lockFile, fsVars, inv>>

CallInvalidate ==
  /\ vm.ops < MaxMetaOps
  /\ \E problem \in Problems :
       vm' = Called("invalidate", Invalidate(vm.meta, problem), vm.file, <<>>,
                    [NoInputs EXCEPT !.problem = problem], NewMeta, FALSE)
  /\ UNCHANGED <<sh, now, lockFile, fsVars, inv>>

CallSet ==
  /\ vm.ops < MaxMetaOps
  /\ \E others \in SetArgLists :
       vm' = Called("set", Set(vm.meta, others), vm.file, others, NoInputs,
                    NewMeta, FALSE)
  /\ UNCHANGED <<sh, now, lockFile, fsVars, inv>>

\* JsonSerializable.load on the object's own file
CallLoad ==
  /\ vm.ops < MaxMetaOps
  /\ vm' = Called("load", Load(vm.meta, vm.file), vm.file, <<>>, NoInputs,
                  NewMeta, FALSE)
  /\ UNCHANGED <<sh, now, lockFile, fsVars, inv>>

\* JsonSerializable.save on the object's own file
CallSave ==
  /\ vm.ops < MaxMetaOps
  /\ vm' = Called("save", vm.meta, Saved(FALSE, vm.file, MetaFile(vm.meta)),
                  <<>>, NoInputs, NewMeta, FALSE)
  /\ UNCHANGED <<sh, now, lockFile, fsVars, inv>>

\* A Packager's refresh_latest, the object's file being its latest file
CallRefreshLatest ==
  /\ vm.ops < MaxMetaOps
  /\ \E answer \in {""} \cup Versions, dry \in BOOLEAN :
       LET l == RefreshLatest(vm.file, answer, now, dry)
       IN vm' = Called("refresh_latest", l.meta, l.file, <<>>,
                       [NoInputs EXCEPT
                          !.res = [NoResolution EXCEPT !.answer = answer],
                          !.dry = dry],
                       l.meta, l.queried)
  /\ UNCHANGED <<sh, now, lockFile, fsVars, inv>>

\* A Packager's refresh_desired: the object is its desired meta, the file its
\* latest file
CallRefreshDesired ==
  /\ vm.ops < MaxMetaOps
  /\ \E cfg \in PairConfigs, res \in AllResolutions, dry \in BOOLEAN :
       LET d == RefreshDesired(cfg, res, vm.file, now, dry)
       IN vm' = Called("refresh_desired", d.desired, d.file, <<>>,
                       [NoInputs EXCEPT !.cfg = cfg, !.res = res, !.dry = dry],
                       d.latest, d.queried)
  /\ UNCHANGED <<sh, now, lockFile, fsVars, inv>>

NextMeta ==
  \/ Tick
  \/ CallSetVersion
  \/ CallInvalidate
  \/ CallSet
  \/ CallLoad
  \/ CallSave
  \/ CallRefreshLatest
  \/ CallRefreshDesired

SpecMeta == Init /\ [][NextMeta]_vars

(***************************************************************************)
(* The delivery methods called on any target and source, and the delivered *)
(* wrappers run from a shell (lines 18-56, 81-156)                          *)
(***************************************************************************)
\* Number of operations made from the shell
MaxShellOps == 5

\* Number of background processes a run may spawn before the model stops it
MaxSpawns == 3

\* DELIVERERS: the registered delivery methods (lines 108, 123, 149)
DeliveryMethods == {"symlink", "wrap", "copy"}

\* The packages delivered from the shell
ShellPackages == {"foo", PICKLEY}

\* The source paths handed to install: {meta}/{name}-{version} (line 599)
ShellSources(pkg) ==
  {Artifact(e, "1.0", "pex") : e \in Range(WheelEntryPoints(pkg, "1.0"))}

\* Is the file at a path of the bin folder executable ([[ -x path ]]): a
\* symlink is as long as its source is there; a wrapper, a copy and a foreign
\* program are
Executable(entry) ==
  IF entry.kind = "symlink" THEN \E n \in Packages : entry.src \in metaDir[n]
  ELSE entry.kind \in {"wrap", "copy", "foreign"}

\* Is a source path executable
SourceExecutable(pkg, src) == src \in metaDir[pkg]

\* First arguments of a command
Args == {"auto-upgrade", "--version"}

\* What running a wrapper does: the background command it spawns (none or
\* one), the command it execs (none or one), otherwise what it prints and its
\* exit status
Ran(spawn, exec) ==
  [spawn |-> spawn, exec |-> exec,
   out |-> IF exec = <<>> THEN "Please reinstall" ELSE "",
   status |-> IF exec = <<>> THEN 1 ELSE 0]

PickleyWrapperSpawnsWrapper(pkg, src, arg, pickleyExec, sourceExec) ==
  IF sourceExec
  THEN Ran(<<Cmd(BinPath(PICKLEY), "auto-upgrade", pkg)>>,
           <<Cmd(SourcePath(pkg, src), arg, "")>>)
  ELSE Ran(<<>>, <<>>)

\* PICKLEY_WRAPPER (lines 38-56)
PickleyWrapper(pkg, src, arg, pickleyExec, sourceExec) ==
  IF sourceExec
  THEN Ran(IF arg # "auto-upgrade"
           THEN <<Cmd(SourcePath(pkg, src), "auto-upgrade", pkg)>> ELSE <<>>,
           <<Cmd(SourcePath(pkg, src), arg, "")>>)
  ELSE Ran(<<>>, <<>>)

\* GENERIC_WRAPPER (lines 18-35)
GenericWrapper(pkg, src, arg, pickleyExec, sourceExec) ==
  Ran(IF pickleyExec THEN <<Cmd(BinPath(PICKLEY), "auto-upgrade", pkg)>> ELSE <<>>,
      IF sourceExec THEN <<Cmd(SourcePath(pkg, src), arg, "")>> ELSE <<>>)

\* The wrapper DeliveryWrap._install writes for a package (lines 134-138), run
Wrapper(pkg, src, arg, pickleyExec, sourceExec) ==
  IF pkg = PICKLEY THEN PickleyWrapper(pkg, src, arg, pickleyExec, sourceExec)
  ELSE GenericWrapper(pkg, src, arg, pickleyExec, sourceExec)

\* Running what sits at a path of the bin folder: a wrapper runs its script,
\* a symlink or a copy is its source, anything else just ends
RunEntry(entry, cmd) ==
  IF entry.kind = "wrap"
  THEN Wrapper(entry.pkg, entry.src, cmd.arg, Executable(bin[PICKLEY]),
               SourceExecutable(entry.pkg, entry.src))
  ELSE IF entry.kind \in {"symlink", "copy"} /\ Executable(entry)
  THEN [spawn |-> <<>>, exec |-> <<Cmd(SourcePath(entry.pkg, entry.src), cmd.arg,
                                       cmd.about)>>,
        out |-> "", status |-> 0]
  ELSE [spawn |-> <<>>, exec |-> <<>>, out |-> "",
        status |-> IF entry.kind = "foreign" THEN 0 ELSE 127]

\* The shell after an operation: op is the operation, call the install call it
\* made, jobs the commands that are still to run (the first one next), spawns
\* the number of background processes spawned since the user's command, job
\* and ran the command that ran last and what it did
Shell(op, call, jobs, spawns, job, ran) ==
  [ops |-> sh.ops + (IF op = "step" THEN 0 ELSE 1), op |-> op, call |-> call,
   jobs |-> jobs, spawns |-> spawns, job |-> job, ran |-> ran]

\* A packager has moved an artifact into <meta>/<package> (line 597)
PutSource ==
  /\ sh.ops < MaxShellOps /\ sh.jobs = <<>>
  /\ \E pkg \in ShellPackages : \E src \in ShellSources(pkg) :
       /\ src \notin metaDir[pkg]
       /\ metaDir' = [metaDir EXCEPT ![pkg] = MovedInto(FALSE, @, src)]
  /\ sh' = Shell("put", NoCall, <<>>, 0, NoCmd, NoRan)
  /\ UNCHANGED <<vm, now, lockFile, workDir, currentFile, latestFile, epFile, bin,
                 pingFile, inv>>

\* An artifact is deleted from <meta>/<package> (line 517)
DropSource ==
  /\ sh.ops < MaxShellOps /\ sh.jobs = <<>>
  /\ \E pkg \in ShellPackages : \E src \in ShellSources(pkg) :
       /\ src \in metaDir[pkg]
       /\ metaDir' = [metaDir EXCEPT ![pkg] = @ \ {src}]
  /\ sh' = Shell("drop", NoCall, <<>>, 0, NoCmd, NoRan)
  /\ UNCHANGED <<vm, now, lockFile, workDir, currentFile, latestFile, epFile, bin,
                 pingFile, inv>>

\* deliverer.install(target, source) for a delivery method, a target of the
\* bin folder and a source path, in or out of dry-run mode
CallInstall ==
  /\ sh.ops < MaxShellOps /\ sh.jobs = <<>>
  /\ \E method \in DeliveryMethods, pkg \in ShellPackages, dry \in BOOLEAN,
        fault \in Faults :
       \E src \in ShellSources(pkg) :
         LET target == src.name
             exists == src \in metaDir[pkg]
             d == DeliveryInstall(bin[target], dry, exists, fault,
                                  Delivered(method, pkg, src))
         IN /\ fault # "none" => ~dry /\ exists /\ CanFail(method, fault)
            /\ bin' = [bin EXCEPT ![target] = d.entry]
            /\ pingFile' = [pingFile EXCEPT ![pkg] = Touched(@, d.touched, now)]
            /\ sh' = Shell("install",
                           [method |-> method, pkg |-> pkg, target |-> target,
                            src |-> src, dry |-> dry, fault |-> fault,
                            exists |-> exists, before |-> bin[target],
                            aborted |-> d.aborted, touched |-> d.touched],
                           <<>>, 0, NoCmd, NoRan)
  /\ UNCHANGED <<vm, now, lockFile, metaDir, workDir, currentFile, latestFile, epFile,
                 inv>>

\* The user runs what sits at a path of the bin folder
RunCommand ==
  /\ sh.ops < MaxShellOps /\ sh.jobs = <<>>
  /\ \E name \in AllEntryNames, arg \in Args :
       /\ bin[name] # Absent
       /\ sh' = Shell("run", NoCall, <<Cmd(BinPath(name), arg, "")>>, 0, NoCmd, NoRan)
  /\ UNCHANGED <<vm, now, lockFile, fsVars, inv>>

\* The next command runs: a path of the bin folder runs what sits there; a
\* source is the packaged program, which runs and ends (pickley's own
\* auto-upgrade included: it runs no delivered executable)
StepJob ==
  /\ sh.jobs # <<>>
  /\ sh.spawns < MaxSpawns
  /\ LET cmd == Head(sh.jobs)
         ran == IF cmd.prog.at = "bin" THEN RunEntry(bin[cmd.prog.name], cmd)
                ELSE NoRan
     IN sh' = Shell("step", NoCall, ran.exec \o Tail(sh.jobs) \o ran.spawn,
                    sh.spawns + Len(ran.spawn), cmd, ran)
  /\ UNCHANGED <<vm, now, lockFile, fsVars, inv>>

NextDelivery ==
  \/ PutSource
  \/ DropSource
  \/ CallInstall
  \/ RunCommand
  \/ StepJob

SpecDelivery == Init /\ [][NextDelivery]_vars

(***************************************************************************)
(* Vocabulary of the properties                                            *)
(***************************************************************************)
\* The process is inside the with block of internal_install
Inside(p) ==
  inv[p].pc \in {"resolve", "check", "package", "build", "move", "deliver",
                 "cleanup", "removed", "save"}

\* The process is between effective_install and the end of internal_install
Installing(p) ==
  inv[p].pc \in {"package", "build", "move", "deliver", "cleanup", "removed", "save"}

Terminated(p) == inv[p].pc = "done"

\* The state of the invocation in the state machine of an install
Phase(p) ==
  IF inv[p].pc \in {"idle", "acquire", "resolve"} THEN "UNRESOLVED"
  ELSE IF inv[p].pc = "check" THEN "DESIRED_RESOLVED"
  ELSE IF Installing(p) THEN "INSTALLING"
  ELSE inv[p].outcome

ResolutionProblems ==
  {"can't determine stable version", "can't determine latest version"}

(***************************************************************************)
(* Properties                                                              *)
(***************************************************************************)
\* C1: at most one process at a time is inside the section guarded by a
\* package's lock, and a process inside it holds the lock of its package, so
\* no two installs of a package mutate its files at once
C1_MutualExclusion ==
  /\ \A p \in Procs : Inside(p) => lockFile[DistFolder(p)] = p
  /\ \A p, q \in Procs :
       (p # q /\ Inside(p) /\ Inside(q)) => inv[p].pkg # inv[q].pkg

\* C1 witness: one process is delivering a package while another waits for
\* the lock of the same package
C1_Witness ==
  \E p, q \in Procs :
    /\ p # q /\ inv[p].pkg = inv[q].pkg
    /\ inv[p].pc = "deliver" /\ inv[q].pc = "acquire"

\* C2: an install that meets a lock held by a running process past the wait
\* fails with an error naming the lock file and changes nothing on disk; an
\* install (a retry included) that finds the lock free acquires it
C2_LockContention ==
  [][\A p \in Procs :
       /\ (inv[p].pc = "acquire" /\ inv'[p].pc = "done") =>
            /\ inv'[p].outcome = "FAILED"
            /\ inv'[p].pingPath = [pkg |-> inv[p].pkg, sub |-> ".work", file |-> ".ping"]
            /\ \E q \in Procs \ {p} : Inside(q) /\ inv[q].pkg = inv[p].pkg
            /\ now - inv[p].waitStart >= InstallTimeout
            /\ UNCHANGED <<fsVars, lockFile>>
       /\ (inv[p].pc = "acquire" /\ inv'[p] # inv[p]
             /\ \A q \in Procs \ {p} : ~(Inside(q) /\ inv[q].pkg = inv[p].pkg)) =>
            /\ inv'[p].pc = "resolve"
            /\ lockFile'[DistFolder(p)] = p
            /\ UNCHANGED fsVars]_vars

\* C2 witness: a process that once gave up on the lock has retried and
\* installed the package
C2_Witness ==
  \E p \in Procs :
    /\ inv[p].gaveUp /\ Terminated(p) /\ inv[p].outcome = "INSTALLED"
    /\ currentFile[inv[p].pkg].exists

\* C3: in every terminal state of an invocation, whatever its exit path, the
\* invocation holds no lock, and the lock of its package blocks nobody unless
\* another running invocation holds it
C3_LockReleased ==
  \A p \in Procs :
    ~Inside(p) =>
      /\ \A l \in LockPaths : lockFile[l] # p
      /\ (Terminated(p) /\ Blocked(DistFolder(p))) =>
           \E q \in Procs \ {p} : Inside(q) /\ lockFile[DistFolder(p)] = q

\* C3 witness: one invocation ended by an abort of the delivery and another
\* by the 'already installed' return, and no lock is left
C3_Witness ==
  /\ \E p \in Procs : Terminated(p) /\ inv[p].msg = "Failed delivery"
  /\ \E p \in Procs : Terminated(p) /\ inv[p].outcome = "UP_TO_DATE"
  /\ \A l \in LockPaths : lockFile[l] = NoPid

\* C4: when a non-dry-run install of a package that had no prior state
\* completes for desired version V, the persisted current meta has version V
\* and the packager's identifier, and every entry point of the built artifact
\* has a delivered executable bound to an artifact of version V that is still
\* in the package's metadata directory
C4_FreshInstall ==
  [][\A p \in Procs :
       (inv[p].pc = "save" /\ inv'[p].pc = "done" /\ ~inv[p].dryrun /\ inv[p].fresh) =>
         LET name == inv[p].pkg
             V == inv[p].desired.version
         IN /\ inv'[p].outcome = "INSTALLED"
            /\ currentFile'[name].exists
            /\ currentFile'[name].meta.version = V
            /\ currentFile'[name].meta.packager = inv[p].packager
            /\ WheelEntryPoints(name, V) # <<>>
            /\ \A e \in Range(WheelEntryPoints(name, V)) :
                 /\ bin'[e].kind = inv[p].delivery
                 /\ bin'[e].pkg = name
                 /\ bin'[e].src.version = V
                 /\ bin'[e].src \in metaDir'[name]]_vars

\* C4 witness: foo 1.0 was installed where nothing of foo existed, and both
\* its entry points are delivered
C4_Witness ==
  \E p \in Procs :
    /\ Terminated(p) /\ inv[p].outcome = "INSTALLED" /\ inv[p].fresh /\ ~inv[p].dryrun
    /\ inv[p].pkg = "foo" /\ currentFile["foo"].meta.version = "1.0"
    /\ bin["foo"].pkg = "foo" /\ bin["bar"].pkg = "foo"

\* C5: when the persisted current meta records the version, packager,
\* delivery and python that the desired meta resolves to, install(force=False)
\* goes from the comparison straight to 'is already installed' (no
\* effective_install) and leaves the current meta, the entry-points file, the
\* metadata directory and the delivered executables as they were when the
\* invocation acquired the lock
C5_Idempotent ==
  [][\A p \in Procs :
       LET name == inv[p].pkg
           cur == currentFile[name]
           des == inv[p].desired
       IN (/\ inv[p].pc = "check" /\ inv'[p] # inv[p] /\ ~inv[p].force
           /\ cur.exists /\ cur.meta.version = des.version
           /\ cur.meta.packager = des.packager /\ cur.meta.delivery = des.delivery
           /\ cur.meta.python = des.python) =>
            /\ inv'[p].pc = "done"
            /\ inv'[p].outcome = "UP_TO_DATE"
            /\ inv'[p].msg = "is already installed"
            /\ Persisted(name)' = inv[p].snap.persisted]_vars

\* C5 witness: an install without force ended as 'already installed'
C5_Witness ==
  \E p \in Procs :
    /\ Terminated(p) /\ inv[p].outcome = "UP_TO_DATE" /\ ~inv[p].force
    /\ inv[p].msg = "is already installed"
    /\ currentFile[inv[p].pkg].meta.version = inv[p].desired.version
    /\ currentFile[inv[p].pkg].meta.delivery = inv[p].desired.delivery

\* C6: internal_install skips the install exactly when force is off and the
\* persisted current meta and the desired meta have the same version and the
\* same packager, whatever their channel, source, delivery, python and
\* timestamp
C6_EquivalentDecides ==
  [][\A p \in Procs :
       LET cur == currentFile[inv[p].pkg]
           des == inv[p].desired
       IN (inv[p].pc = "check" /\ inv'[p] # inv[p]) =>
            ((inv'[p].outcome = "UP_TO_DATE" /\ inv'[p].pc = "done")
               <=> (/\ ~inv[p].force /\ cur.exists
                    /\ cur.meta.version = des.version
                    /\ cur.meta.packager = des.packager))]_vars

\* C6 witness: an install was skipped although current and desired differ in
\* channel, source, delivery, python and timestamp
C6_Witness ==
  \E p \in Procs :
    LET cur == currentFile[inv[p].pkg].meta
        des == inv[p].desired
    IN /\ Terminated(p) /\ inv[p].outcome = "UP_TO_DATE"
       /\ cur.channel # des.channel /\ cur.source # des.source
       /\ cur.delivery # des.delivery /\ cur.python # des.python
       /\ cur.timestamp # des.timestamp

\* C7 (as claimed): an install that aborts after it acquired the lock leaves
\* the current meta, the entry-points file, the artifacts of the metadata
\* directory and the delivered executables as they were when it started
C7_AbortLeavesState ==
  [][\A p \in Procs :
       (Inside(p) /\ inv'[p].pc = "done" /\ inv'[p].outcome = "FAILED") =>
         Persisted(inv[p].pkg)' = inv[p].snap.persisted]_vars

\* C8: when refresh_desired leaves desired invalid, the invocation ends at
\* once with desired's problem as its message, without reaching the load of
\* current, effective_install, delivery or cleanup, and with the package's
\* files untouched, force or not; an invocation goes on only with a valid
\* desired meta
C8_UnresolvedAborts ==
  [][\A p \in Procs :
       (inv[p].pc = "resolve" /\ inv'[p] # inv[p]) =>
         IF Valid(inv'[p].desired)
         THEN inv'[p].pc = "check"
         ELSE /\ inv'[p].pc = "done"
              /\ inv'[p].outcome = "FAILED"
              /\ inv'[p].msg = inv'[p].desired.problem
              /\ inv'[p].msg \in ResolutionProblems
              /\ OnDisk(inv[p].pkg)' = inv[p].snap
              /\ UNCHANGED bin]_vars

\* C8 witness: a forced install of a package that is installed ended on an
\* unresolvable desired version
C8_Witness ==
  \E p \in Procs :
    /\ Terminated(p) /\ inv[p].outcome = "FAILED" /\ inv[p].force
    /\ inv[p].msg \in ResolutionProblems
    /\ currentFile[inv[p].pkg].exists /\ Valid(currentFile[inv[p].pkg].meta)

\* The transitions of the state machine of an install invocation; a process
\* leaves a terminal state only to start its next invocation
PhaseEdges ==
  { <<"UNRESOLVED", "DESIRED_RESOLVED">>, <<"UNRESOLVED", "FAILED">>,
    <<"DESIRED_RESOLVED", "UP_TO_DATE">>, <<"DESIRED_RESOLVED", "INSTALLING">>,
    <<"DESIRED_RESOLVED", "FAILED">>,
    <<"INSTALLING", "INSTALLED">>, <<"INSTALLING", "FAILED">>,
    <<"UP_TO_DATE", "UNRESOLVED">>, <<"INSTALLED", "UNRESOLVED">>,
    <<"FAILED", "UNRESOLVED">> }

\* C9: an invocation moves only along UNRESOLVED -> DESIRED_RESOLVED ->
\* (UP_TO_DATE | INSTALLING -> INSTALLED), or to FAILED from a non-terminal
\* state; it is INSTALLING only while it holds the lock and its desired
\* version is resolved; and, processes being scheduled fairly, every
\* invocation ends in exactly one of UP_TO_DATE, INSTALLED, FAILED
C9_StateMachine ==
  /\ [][\A p \in Procs :
          Phase(p)' # Phase(p) => <<Phase(p), Phase(p)'>> \in PhaseEdges]_vars
  /\ [](\A p \in Procs :
          /\ Installing(p) => (lockFile[DistFolder(p)] = p /\ Valid(inv[p].desired))
          /\ Terminated(p) => inv[p].outcome \in {"UP_TO_DATE", "INSTALLED", "FAILED"})
  /\ \A p \in Procs : (inv[p].pc = "acquire") ~> Terminated(p)

\* C9 witness: one invocation ended UP_TO_DATE after an install of the
\* package, and another ended FAILED because it gave up on the lock
C9_Witness ==
  /\ \E p \in Procs : Terminated(p) /\ inv[p].outcome = "UP_TO_DATE"
  /\ \E p \in Procs : Terminated(p) /\ inv[p].outcome = "FAILED"
                       /\ inv[p].msg = "is currently being installed by another process"

\* C10: no step of a dry-run invocation changes anything on disk (artifacts,
\* delivered executables, the metadata directory, the current, latest and
\* entry-points files), and a dry-run invocation that gets past the
\* 'already installed' test ends by reporting 'Would install'
C10_DryRun ==
  [][\A p \in Procs :
       (inv[p].dryrun /\ inv'[p] # inv[p] /\ ~Terminated(p)) =>
         /\ UNCHANGED fsVars
         /\ OnDisk(inv[p].pkg)' = (IF inv[p].pc = "acquire" THEN OnDisk(inv[p].pkg)
                                   ELSE inv[p].snap)
         /\ (Installing(p) /\ inv'[p].pc = "done") =>
              (inv'[p].outcome = "INSTALLED" /\ inv'[p].msg = "Would install")
         /\ (Installing(p) /\ inv'[p].pc # "done") => Installing(p)']_vars

\* C10 witness: a dry-run install of a package that is installed in another
\* version ended with 'Would install'
C10_Witness ==
  \E p \in Procs :
    /\ Terminated(p) /\ inv[p].dryrun /\ inv[p].msg = "Would install"
    /\ currentFile[inv[p].pkg].exists
    /\ currentFile[inv[p].pkg].meta.version # inv[p].desired.version
    /\ \E e \in AllEntryNames : bin[e].pkg = inv[p].pkg

(***************************************************************************)
(* VersionMeta                                                             *)
(***************************************************************************)
\* C11: whatever methods were called on a VersionMeta, valid is true exactly
\* when its version is non-empty and no problem is recorded on it (the same
\* goes for the meta its file holds and for a Packager's latest)
C11_ValidIff ==
  \A m \in {vm.meta, vm.file.meta, vm.latest} :
    Valid(m) <=> (m.version # "" /\ m.problem = NoProblem)

\* A meta that has a version and a problem at once: invalidated, then given
\* a version
C11_Witness ==
  /\ vm.op = "set_version" /\ vm.meta.version # ""
  /\ vm.meta.problem # NoProblem /\ ~Valid(vm.meta)

\* C12: still_valid is true exactly when the meta is valid and now - timestamp
\* is below the re-check delay, and it is true right after set_version with a
\* non-empty version
C12_StillValid ==
  /\ StillValid(vm.meta, now)
       <=> (Valid(vm.meta) /\ now - vm.meta.timestamp < VersionCheckDelay)
  /\ (vm.op = "set_version" /\ vm.inp.version # "" /\ now = vm.at)
       => StillValid(vm.meta, now)

\* C13: set_version sets version, source and channel, stamps the time and
\* clears the problem, so that a meta given a non-empty version is valid
C13_SetVersionClears ==
  vm.op = "set_version" =>
    /\ vm.meta.version = vm.inp.version
    /\ vm.meta.source = vm.inp.source
    /\ vm.meta.channel = vm.inp.channel
    /\ vm.meta.timestamp = vm.at
    /\ vm.meta.problem = NoProblem
    /\ vm.inp.version # "" => Valid(vm.meta)

\* What an argument of set supplies for the field f
Supplied(other, f) == IF other.kind = "meta" THEN other.meta[f] ELSE other.cfg[f]

\* The last element of a sequence, d when it is empty
LastOr(seq, d) == IF seq = <<>> THEN d ELSE seq[Len(seq)]

IsMeta(other) == other.kind = "meta"

NonEmpty(v) == v # ""

\* The last non-empty value the arguments supply for f, else the value before
LastNonEmpty(others, f, before) ==
  LastOr(SelectSeq([i \in 1..Len(others) |-> Supplied(others[i], f)], NonEmpty),
         before)

\* C14: after set(*others), problem, channel, source, timestamp and version
\* are those of the last VersionMeta argument (empty or not), packager,
\* delivery and python are the last non-empty values supplied; without a
\* VersionMeta argument the first five are untouched, without any argument
\* the meta is unchanged
C14_SetPrecedence ==
  vm.op = "set" =>
    LET last == LastOr(SelectSeq(vm.others, IsMeta),
                       [kind |-> "meta", meta |-> vm.pre, cfg |-> NoConfig]).meta
    IN vm.meta =
         [problem |-> last.problem, channel |-> last.channel,
          source |-> last.source, timestamp |-> last.timestamp,
          version |-> last.version,
          packager |-> LastNonEmpty(vm.others, "packager", vm.pre.packager),
          delivery |-> LastNonEmpty(vm.others, "delivery", vm.pre.delivery),
          python |-> LastNonEmpty(vm.others, "python", vm.pre.python)]

\* set(packager, meta) on a meta that had a version, the meta argument having
\* neither a version nor a packager: the version goes, the packager stays
C14_Witness ==
  /\ vm.op = "set" /\ Len(vm.others) = 2 /\ Valid(vm.pre)
  /\ vm.others[1].kind = "packager" /\ vm.others[2].kind = "meta"
  /\ vm.others[2].meta.version = "" /\ vm.others[2].meta.packager = ""
  /\ vm.meta.version = "" /\ vm.meta.packager = vm.others[1].cfg.packager

(***************************************************************************)
(* refresh_latest and refresh_desired                                      *)
(***************************************************************************)
\* C15: refresh_latest queries the index only when the loaded latest meta is
\* not still valid.  On a hit nothing is queried and meta and file are as
\* they were; on a miss with an answer the meta takes the version and the
\* time of the call and is saved (a dry run logs the save); on a miss without
\* an answer the meta is invalid with "can't determine latest version" and
\* the file is not written
C15_RefreshLatest ==
  vm.op = "refresh_latest" =>
    LET loaded == Load(NewMeta, vm.prefile)
        answer == vm.inp.res.answer
    IN IF StillValid(loaded, vm.at)
       THEN ~vm.queried /\ vm.meta = loaded /\ vm.file = vm.prefile
       ELSE /\ vm.queried
            /\ IF answer # ""
               THEN /\ vm.meta.version = answer /\ vm.meta.timestamp = vm.at
                    /\ vm.file = IF vm.inp.dry THEN vm.prefile ELSE MetaFile(vm.meta)
               ELSE /\ ~Valid(vm.meta)
                    /\ vm.meta.problem = "can't determine latest version"
                    /\ vm.file = vm.prefile

\* A cache hit: the index would have answered another version
C15_Witness ==
  /\ vm.op = "refresh_latest" /\ ~vm.queried /\ Valid(vm.meta)
  /\ vm.inp.res.answer # "" /\ vm.inp.res.answer # vm.meta.version

\* C16: refresh_desired takes a pin as it is, without a query; else on the
\* latest channel it adopts what refresh_latest found; else it invalidates
\* with "can't determine <channel> version"; on each path desired carries the
\* packager's identifier, delivery and python
C16_RefreshDesired ==
  vm.op = "refresh_desired" =>
    LET res == vm.inp.res
        cfg == vm.inp.cfg
    IN /\ IF res.pin # ""
          THEN /\ vm.meta.version = res.pin /\ ~vm.queried
               /\ vm.file = vm.prefile
          ELSE IF res.channel = DEFAULT_CHANNEL
          THEN /\ vm.meta.version = vm.latest.version
               /\ vm.meta.problem = vm.latest.problem
          ELSE /\ ~Valid(vm.meta)
               /\ vm.meta.problem = CantDetermine(res.channel)
       /\ vm.meta.packager = cfg.packager
       /\ vm.meta.delivery = cfg.delivery
       /\ vm.meta.python = cfg.python

(***************************************************************************)
(* Cleanup of <meta>/<package> and retirement of removed entry points      *)
(***************************************************************************)
\* The step that ends a non-dry-run install as installed (lines 525-529)
Completes(p) == inv[p].pc = "save" /\ inv'[p].pc = "done" /\ ~inv[p].dryrun

\* What the package had on disk when the invocation acquired its lock
Before(p) == inv[p].snap.persisted

\* The artifacts of the version that was current before the install
Predecessor(p) ==
  {a \in Before(p).meta :
     Before(p).current.exists /\ a.version = Before(p).current.meta.version}

\* C17: when an install completes and the newest artifact (the one just
\* installed, made after the invocation started) is younger than the
\* install-timeout cutoff, the artifacts that survive in the package's
\* metadata directory are exactly the fresh install and its immediate
\* predecessor; when the newest artifact is older than the cutoff, exactly the
\* fresh install survives
C17_Retention ==
  [][\A p \in Procs :
       (Completes(p) /\ Before(p).meta = Predecessor(p)) =>
         metaDir'[inv[p].pkg] =
           IF now - inv[p].waitStart < InstallTimeout
           THEN inv[p].installed \cup Predecessor(p)
           ELSE inv[p].installed]_vars

\* The entry points recorded before the install that the new artifact no
\* longer has
RemovedEntryPoints(p) ==
  (IF Before(p).eps.exists THEN Range(Before(p).eps.eps) ELSE {})
    \ Range(epFile[inv[p].pkg].eps)

\* C18: when an install completes whose artifact no longer has a previously
\* recorded entry point, the artifacts of that entry point that were on disk
\* are still there as long as the install that recorded them is younger than
\* the install-timeout cutoff
C18_RemovedKept ==
  [][\A p \in Procs :
       (Completes(p) /\ Before(p).current.exists
          /\ now - Before(p).current.meta.timestamp < InstallTimeout) =>
         \A e \in RemovedEntryPoints(p) :
           {a \in Before(p).meta : a.name = e} \subseteq metaDir'[inv[p].pkg]]_vars

\* C19: when a non-dry-run install completes, the delivered executable of
\* every entry point that was in the entry-points file before the install and
\* is not in the list found in the new artifact no longer exists in the bin
\* directory, and every entry point of the new list has its delivered
\* executable there
C19_RemovedExecutables ==
  [][\A p \in Procs :
       Completes(p) =>
         /\ \A e \in RemovedEntryPoints(p) : bin'[e] = Absent
         /\ \A e \in Range(epFile[inv[p].pkg].eps) :
              /\ bin'[e].kind = inv[p].delivery
              /\ bin'[e].pkg = inv[p].pkg]_vars

\* C19 witness: foo 2.0 is being installed over foo 1.0, whose entry point bar
\* was delivered and is not in the new wheel; only the save of the current
\* meta is left, bin/bar is gone and bin/foo is delivered from foo 2.0
C19_Witness ==
  \E p \in Procs :
    /\ inv[p].pc = "save" /\ ~inv[p].dryrun /\ inv[p].pkg = "foo"
    /\ inv[p].desired.version = "2.0"
    /\ "bar" \in RemovedEntryPoints(p) /\ Before(p).bin["bar"].pkg = "foo"
    /\ bin["bar"] = Absent
    /\ bin["foo"].pkg = "foo" /\ bin["foo"].src.version = "2.0"

(***************************************************************************)
(* Installs of different packages                                          *)
(***************************************************************************)
\* C20: installs of different packages do not interfere.  A process that
\* finds its lock held finds it held by an install of the same package; a
\* step changes what a package has on disk (current meta, entry-points file,
\* metadata directory, delivered executables, latest file, work folder) only
\* if it is a step of the process that is inside an install of that package;
\* and an install that completes leaves what it produces alone: the current
\* meta of the desired version, the entry points of that version's wheel,
\* the artifacts it installed and an executable delivered from them for each
\* entry point
C20_NoInterference ==
  [][/\ \A p \in Procs :
          (inv[p].pc = "acquire" /\ Blocked(DistFolder(p))) =>
            /\ lockFile[DistFolder(p)] # p
            /\ inv[lockFile[DistFolder(p)]].pkg = inv[p].pkg
     /\ \A n \in Packages :
          OnDisk(n)' # OnDisk(n) =>
            \E p \in Procs : Inside(p) /\ inv[p].pkg = n /\ inv'[p] # inv[p]
     /\ \A p \in Procs :
          Completes(p) =>
            LET n == inv[p].pkg
                V == inv[p].desired.version
            IN /\ currentFile'[n].exists /\ currentFile'[n].meta.version = V
               /\ epFile'[n] = EpFile(WheelEntryPoints(n, V))
               /\ metaDir'[n] = inv[p].installed
               /\ \A e \in Range(WheelEntryPoints(n, V)) :
                    /\ bin'[e].pkg = n
                    /\ bin'[e].src \in inv[p].installed]_vars

\* C20 witness: two processes have gone through the installs of two different
\* packages at the same time: each holds its own lock, has delivered its
\* executable and has only the save of its current meta left
C20_Witness ==
  \E p, q \in Procs :
    /\ inv[p].pkg = "foo" /\ inv[q].pkg = PICKLEY
    /\ inv[p].pc = "save" /\ inv[q].pc = "save"
    /\ lockFile[DistFolder(p)] = p /\ lockFile[DistFolder(q)] = q
    /\ bin["foo"].pkg = "foo" /\ bin[PICKLEY].pkg = PICKLEY

(***************************************************************************)
(* Stale locks                                                             *)
(***************************************************************************)
\* C22: a lock file that names a process that is not alive does not block.
\* The next step of a process that tries to acquire such a lock acquires it,
\* whatever time has passed since it started to wait (it never gives up), the
\* lock file then names the acquirer, and when the acquirer leaves the guarded
\* section the lock file is gone
C22_StaleLock ==
  [][\A p \in Procs :
       LET path == DistFolder(p)
       IN /\ (inv[p].pc = "acquire" /\ lockFile[path] # NoPid /\ ~Alive(lockFile[path])
                /\ inv'[p] # inv[p]) =>
               /\ inv'[p].pc = "resolve"
               /\ lockFile'[path] = p
               /\ inv'[p].outcome # "FAILED"
          /\ (Inside(p) /\ inv'[p].pc = "done") =>
               lockFile'[path] = NoPid]_vars

\* C22 witness: a process has installed foo, whose lock file named a dead
\* process when it arrived; it acquired the lock at the instant it started to
\* wait, and the lock file is gone
C22_Witness ==
  \E p \in Procs :
    /\ Terminated(p) /\ inv[p].outcome = "INSTALLED" /\ inv[p].pkg = "foo"
    /\ inv[p].runs = 1 /\ ~inv[p].gaveUp
    /\ \A q \in Procs \ {p} : inv[q].runs = 0
    /\ now = 1
    /\ lockFile[[pkg |-> "foo", sub |-> ".work"]] = NoPid

(***************************************************************************)
(* Packages that are not a CLI                                             *)
(***************************************************************************)
\* C23: installing a package whose wheel was built and has no console-script
\* entry points fails with the 'not a CLI' diagnostic; no entry-points file and no
\* current meta are written, nothing is delivered, and where the package had
\* nothing on disk before, nothing of it is on disk afterwards (no file or
\* folder under <meta>/<package>, so no metadata directory is left behind)
C23_NotACli ==
  [][\A p \in Procs :
       (inv[p].pc = "package" /\ ~inv[p].dryrun /\ inv'[p] # inv[p]
          /\ inv'[p].msg # "pip wheel failed"
          /\ WheelEntryPoints(inv[p].pkg, inv[p].desired.version) = <<>>) =>
         LET n == inv[p].pkg
         IN /\ inv'[p].pc = "done" /\ inv'[p].outcome = "FAILED"
            /\ inv'[p].msg = "is not a CLI, it has no console_scripts entry points"
            /\ epFile'[n] = Before(p).eps
            /\ currentFile'[n] = Before(p).current
            /\ \A e \in AllEntryNames : bin'[e] = bin[e]
            /\ inv[p].fresh =>
                 /\ NoTrace(n)'
                 /\ \A l \in LockPaths : l.pkg = n => lockFile'[l] = NoPid]_vars

(***************************************************************************)
(* perform_delivery                                                        *)
(***************************************************************************)
\* C26: among the calls perform_delivery makes, the occupant of a target is
\* passed to uninstall_existing exactly when the package is not the tool's
\* own package and it had no current meta file; every uninstall_existing of a
\* target is followed at once by the delivery's install for the same target,
\* and every target delivered so far has had its install
C26_UninstallFirst ==
  \A p \in Procs :
    LET c == inv[p].calls
        installs == {i \in 1..Len(c) : c[i].op = "install"}
        preceded(i) == i > 1 /\ c[i - 1] = [op |-> "uninstall_existing",
                                            target |-> c[i].target]
    IN /\ \A i \in 1..Len(c) :
            c[i].op = "uninstall_existing" =>
              i < Len(c) /\ c[i + 1] = [op |-> "install", target |-> c[i].target]
       /\ \A i \in installs :
            preceded(i) <=> (inv[p].pkg # PICKLEY /\ ~Before(p).current.exists)
       /\ inv[p].pc \in {"cleanup", "removed", "save"} =>
            {c[i].target : i \in installs} = Range(inv[p].eps)

\* C26 witness: a first install of foo 1.0 has delivered foo and bar, bar over
\* a foreign executable, each after an uninstall_existing of its target; and
\* an install of the tool's own package has delivered without any
C26_Witness ==
  \E p \in Procs :
    /\ inv[p].pc = "save" /\ ~inv[p].dryrun /\ inv[p].pkg = "foo"
    /\ Before(p).bin["bar"] = Foreign
    /\ inv[p].calls = <<[op |-> "uninstall_existing", target |-> "foo"],
                        [op |-> "install", target |-> "foo"],
                        [op |-> "uninstall_existing", target |-> "bar"],
                        [op |-> "install", target |-> "bar"]>>
    /\ currentFile[PICKLEY].exists /\ bin[PICKLEY].pkg = PICKLEY

(***************************************************************************)
(* Wrappers and the auto-upgrade check                                     *)
(***************************************************************************)
\* The times the clock can show
Times == 1..(MaxTime + 1)

\* C24: every delivery of a wrapper by an install has touched the package's
\* ping file (its 'last checked' time) first, so that an auto-upgrade check
\* of the package at any time within the version-check delay of the delivery
\* is skipped; a ping file is never made older or removed by an install, and
\* every package that has a wrapper in the bin folder has a ping file
C24_WrapResetsPing ==
  [][/\ \A p \in Procs :
          (inv[p].pc = "deliver" /\ inv'[p] # inv[p] /\ inv[p].delivery = "wrap") =>
            LET n == inv[p].pkg
                target == inv[p].eps[inv[p].idx]
            IN (~inv[p].dryrun /\ bin'[target] # Absent) =>
                 /\ bin'[target] = Delivered("wrap", n, bin'[target].src)
                 /\ pingFile'[n] = now
                 /\ \A t \in Times :
                      (t >= now /\ t - now < VersionCheckDelay) =>
                        AutoUpgradeSkips(pingFile'[n], t)
     /\ \A n \in Packages : pingFile'[n] >= pingFile[n]
     /\ \A e \in AllEntryNames :
          bin'[e].kind = "wrap" => pingFile'[bin'[e].pkg] # NoTime]_vars

\* C24 witness: the wrapper of foo has just been delivered over a ping file
\* that an earlier install had left, and the ping file has the current time
C24_Witness ==
  \E p \in Procs :
    /\ inv[p].pc = "cleanup" /\ inv[p].delivery = "wrap" /\ ~inv[p].dryrun
    /\ inv[p].pkg = "foo" /\ bin["foo"].kind = "wrap"
    /\ inv[p].snap.ping # NoTime /\ inv[p].snap.ping < now
    /\ pingFile["foo"] = now
    /\ AutoUpgradeSkips(pingFile["foo"], now)

(***************************************************************************)
(* The delivery methods                                                    *)
(***************************************************************************)
\* C21: install(target, source) of the symlink, wrap and copy methods.  In
\* dry-run mode the call returns normally and the target is as it was, also
\* when the source does not exist; outside dry-run a missing source makes the
\* call abort with nothing placed at the target; outside dry-run with an
\* existing source, what was at the target is replaced by the method's
\* placement bound to the source, unless the placement raises, which makes
\* the call abort
C21_DeliveryInstall ==
  sh.op = "install" =>
    LET c == sh.call
        placed == Delivered(c.method, c.pkg, c.src)
    IN /\ c.method \in DeliveryMethods
       /\ c.dry => (~c.aborted /\ bin[c.target] = c.before)
       /\ (~c.dry /\ ~c.exists) => (c.aborted /\ bin[c.target] = Absent)
       /\ (~c.dry /\ c.exists /\ c.fault = "none") =>
            (~c.aborted /\ bin[c.target] = placed)
       /\ (~c.dry /\ c.exists /\ c.fault # "none") =>
            (c.aborted /\ bin[c.target] # placed)

\* C21 witness: outside dry-run, a copy of bar's source has replaced the
\* foreign executable that was at bin/bar
C21_Witness ==
  /\ sh.op = "install" /\ ~sh.call.dry /\ sh.call.exists /\ ~sh.call.aborted
  /\ sh.call.method = "copy" /\ sh.call.target = "bar"
  /\ sh.call.before = Foreign
  /\ bin["bar"] = Delivered("copy", "foo", Artifact("bar", "1.0", "pex"))

\* C25: running a delivered wrapper spawns at most one background
\* auto-upgrade, and the commands that follow from one user command spawn at
\* most one in all.  The wrapper of the tool's own package spawns none when
\* its first argument is auto-upgrade, and otherwise spawns its source (not
\* the wrapper) with auto-upgrade; the wrapper of another package spawns the
\* tool's executable of the bin folder with auto-upgrade exactly when that
\* executable exists (a symlink with its source); then every wrapper execs its source with its arguments
\* or, when the source is not executable, prints the reinstall hint and exits
\* with a non-zero status
C25_WrapperSpawns ==
  /\ sh.spawns <= 1
  /\ Len(sh.jobs) <= 2
  /\ (sh.op = "step" /\ sh.job.prog.at = "bin" /\ bin[sh.job.prog.name].kind = "wrap") =>
       LET e == bin[sh.job.prog.name]
           source == SourcePath(e.pkg, e.src)
           ran == sh.ran
       IN /\ Len(ran.spawn) <= 1
          /\ e.pkg = PICKLEY =>
               /\ sh.job.arg = "auto-upgrade" => ran.spawn = <<>>
               /\ ran.spawn # <<>> =>
                    ran.spawn = <<Cmd(source, "auto-upgrade", PICKLEY)>>
               /\ (sh.job.arg # "auto-upgrade" /\ e.src \in metaDir[e.pkg]) =>
                    ran.spawn # <<>>
          /\ e.pkg # PICKLEY =>
               /\ ran.spawn # <<>> <=>
                    /\ bin[PICKLEY] # Absent
                    /\ bin[PICKLEY].kind = "symlink" =>
                         bin[PICKLEY].src \in metaDir[PICKLEY]
               /\ ran.spawn # <<>> =>
                    ran.spawn = <<Cmd(BinPath(PICKLEY), "auto-upgrade", e.pkg)>>
          /\ IF e.src \in metaDir[e.pkg]
             THEN ran.exec = <<Cmd(source, sh.job.arg, "")>> /\ ran.out = ""
             ELSE ran.exec = <<>> /\ ran.out = "Please reinstall" /\ ran.status # 0

\* C25 witness: the user ran the wrapper of foo, which spawned bin/pickley
\* auto-upgrade foo; bin/pickley is the tool's own wrapper, which has now run
\* with auto-upgrade, spawned nothing and exec'ed its source
C25_Witness ==
  /\ sh.op = "step" /\ sh.spawns = 1
  /\ sh.job = Cmd(BinPath(PICKLEY), "auto-upgrade", "foo")
  /\ bin[PICKLEY].kind = "wrap" /\ bin["foo"].kind = "wrap"
  /\ sh.ran.spawn = <<>>
  /\ sh.ran.exec = <<Cmd(SourcePath(PICKLEY, bin[PICKLEY].src), "auto-upgrade", "")>>

(***************************************************************************)
(* Forced installs                                                         *)
(***************************************************************************)
\* C28: with force and a desired version that resolved, the comparison of
\* current and desired never ends the install: effective_install is entered
\* (its first step is package), also when the current meta is equivalent to
\* the desired one; and when the forced install completes outside dry-run,
\* perform_delivery has made an install call for every entry point, each is
\* delivered from an artifact of this install, and the current meta file has
\* been rewritten with the desired version and its timestamp
C28_ForceReinstalls ==
  [][\A p \in Procs :
       /\ (inv[p].pc = "check" /\ inv[p].force /\ inv'[p] # inv[p]) =>
            inv'[p].pc = "package"
       /\ (Completes(p) /\ inv[p].force) =>
            LET n == inv[p].pkg
                c == inv[p].calls
            IN /\ {c[i].target : i \in {k \in 1..Len(c) : c[k].op = "install"}}
                    = Range(epFile[n].eps)
               /\ \A e \in Range(epFile[n].eps) :
                    /\ bin'[e] = Delivered(inv[p].delivery, n, bin'[e].src)
                    /\ bin'[e].src \in inv[p].installed
               /\ currentFile'[n].exists
               /\ currentFile'[n].meta.version = inv[p].desired.version
               /\ currentFile'[n].meta.timestamp = inv[p].desired.timestamp
               /\ currentFile'[n].meta.delivery = inv[p].delivery]_vars

\* C28 witness: a forced install of foo, whose current meta was already
\* equivalent to the desired one but recorded another delivery, has built,
\* moved and delivered again and is about to save the current meta
C28_Witness ==
  \E p \in Procs :
    /\ inv[p].pc = "save" /\ inv[p].force /\ ~inv[p].dryrun /\ inv[p].pkg = "foo"
    /\ Before(p).current.exists
    /\ Equivalent(Before(p).current.meta, inv[p].desired)
    /\ Before(p).current.meta.delivery # inv[p].delivery
    /\ bin["foo"].kind = inv[p].delivery


(***************************************************************************)
(* Failures of the build tools                                             *)
(***************************************************************************)
\* C29: when pip wheel returns an error, package() aborts at once with that
\* error and no later step runs: the entry points are not read again or
\* saved, nothing is built, moved into the metadata directory or delivered,
\* and the build is not tried again (all that can follow is a new invocation);
\* and package() called with neither a version nor a source folder aborts
\* before any build tool is run
C29_WheelFailureAborts ==
  [][\A p \in Procs :
       /\ (inv[p].pc = "package" /\ inv'[p].wheel = "error")
            => /\ inv'[p].pc = "done"
               /\ inv'[p].outcome = "FAILED"
               /\ inv'[p].msg = "pip wheel failed"
               /\ UNCHANGED fsVars
               /\ ~inv[p].direct => lockFile'[DistFolder(p)] = NoPid
       /\ (inv[p].pc = "package" /\ inv[p].desired.version = "" /\ inv'[p] # inv[p])
            => /\ inv'[p].pc = "done"
               /\ inv'[p].outcome = "FAILED"
               /\ inv'[p].msg = "Need either source_folder or version in order to package"
               /\ inv'[p].wheel = ""
               /\ UNCHANGED fsVars
       /\ (inv[p].pc = "done" /\ inv'[p] # inv[p])
            => inv'[p].runs = inv[p].runs + 1
    ]_vars

\* An install of a package that is already installed has ended on the error of
\* pip wheel
C29_Witness ==
  \E p \in Procs :
    /\ Terminated(p)
    /\ ~inv[p].direct
    /\ inv[p].wheel = "error"
    /\ inv[p].msg = "pip wheel failed"
    /\ currentFile[inv[p].pkg].exists


C30_BoundToArtifact ==
  \A e \in AllEntryNames :
    bin[e].kind \in {"symlink", "wrap"} => bin[e].src \in metaDir[bin[e].pkg]

=============================================================================
